---- MODULE Spec2Model ----
(***************************************************************************)
(* Model of the civic issue-reporting REST server (src/index.js): the four *)
(* collections users, issues, payments and timelines of the document       *)
(* store, and one action per request handler, gate middleware included.    *)
(*                                                                         *)
(* Conventions.                                                            *)
(*  - users and issues are functions whose DOMAIN is the set of stored     *)
(*    _ids; payments is the sequence of stored payment documents;          *)
(*    timelines is the bag of stored timeline documents (two documents     *)
(*    that differ only in _id and createdAt are two copies of one entry).  *)
(*  - Absent stands for a field that is undefined, null or missing; ""     *)
(*    is the empty string.  Both are falsy in the handlers' tests.         *)
(*  - new Date() is an input of the request, drawn from Times.             *)
(*  - issue timestamps (createdAt, updatedAt), upvotes, the free-text      *)
(*    fields description, category, location (written exactly like title)  *)
(*    and the timeline message are not tracked.                            *)
(*  - inserted counts the issues and the users ever inserted: insertOne    *)
(*    never hands out an _id twice, also after a deletion (the users of    *)
(*    SeedUsers are not counted).  accounts is the set of                  *)
(*    emails that have an account at the identity provider.  deleting      *)
(*    and posting hold the position of a user deletion and of the          *)
(*    citizens' check-then-post requests that are under way, registering   *)
(*    and running the position and the locals of the registrations and of  *)
(*    the status, rejection and assignment requests that are handled one   *)
(*    store operation at a time.                                           *)
(*  - the response of a handler is a function of the store and the         *)
(*    request: for a handler H, HResponse is the status code it answers    *)
(*    with (Thrown when the handler throws before answering), and the      *)
(*    action H is the change it makes to the store.  A handler returns    *)
(*    early, before any write, on every answer but success: such a        *)
(*    request is no step, and H's guard is that HResponse is success.     *)
(***************************************************************************)
EXTENDS Integers, Sequences, FiniteSets, Bags, TLC

VARIABLES users, issues, payments, timelines, calls,
          inserted, accounts, deleting, posting, registering, running

vars == <<users, issues, payments, timelines, calls,
          inserted, accounts, deleting, posting, registering, running>>

data == <<users, issues, payments, timelines>>

\* what a handler of the store leaves alone besides the collections: the
\* identity provider's accounts and the requests that are under way
others == <<accounts, calls, deleting, posting, registering, running>>

(* ------------------------------ bounds -------------------------------- *)

\* issue _ids are 1..MaxIssues, handed out in order and never reused
MaxIssues == 2

\* no handler appends to the timeline once it holds MaxTimeline entries
MaxTimeline == 6

\* new Date() yields a value of 1..MaxTime
MaxTime == 2

\* concurrent settlement calls
MaxCalls == 2

Times == 1..MaxTime

IssueIds == 1..MaxIssues

CallIds == 1..MaxCalls

\* concurrent check-then-post requests
MaxPosts == 2

PostIds == 1..MaxPosts

\* concurrent registrations
MaxRegistrations == 2

RegistrationIds == 1..MaxRegistrations

\* concurrent status, rejection and assignment requests
MaxRuns == 2

RunIds == 1..MaxRuns

(* ------------------------------ values -------------------------------- *)

Absent == "<absent>"

Truthy(v) == v \notin {"", Absent}

Statuses == {"pending", "in_progress", "working", "resolved", "closed", "rejected"}

\* the people holding a valid bearer credential, by verified email; n has
\* signed up at the identity provider and has no user document yet
Callers == {"a@x", "s@x", "t@x", "c@x", "d@x", "n@x"}

\* the user documents the store starts with (each was inserted by POST /users,
\* which takes email, displayName, photoURL and role from the request body)
SeedUsers ==
    [u \in {"u1", "u2", "u3", "u4", "u5"} |->
        CASE u = "u1" -> [email |-> "a@x", displayName |-> "A", photoURL |-> "pa",
                          role |-> "admin", isPremium |-> FALSE, isBlocked |-> FALSE]
          [] u = "u2" -> [email |-> "s@x", displayName |-> "S", photoURL |-> "ps",
                          role |-> "staff", isPremium |-> FALSE, isBlocked |-> FALSE]
          [] u = "u3" -> [email |-> "t@x", displayName |-> "T", photoURL |-> Absent,
                          role |-> "staff", isPremium |-> FALSE, isBlocked |-> FALSE]
          [] u = "u4" -> [email |-> "c@x", displayName |-> "C", photoURL |-> "pc",
                          role |-> "citizen", isPremium |-> FALSE, isBlocked |-> FALSE]
          [] OTHER    -> [email |-> "d@x", displayName |-> "D", photoURL |-> Absent,
                          role |-> "citizen", isPremium |-> FALSE, isBlocked |-> FALSE]]

\* the staffId values an assignment request may carry; "u9" is the _id of no user
StaffIdInputs == {"u2", "u3", "u4", "u9"}

\* request bodies: POST /issues carries a title of CreateTitles and no image,
\* PATCH /citizen/issues/:id a title of Titles and an image of Images
CreateTitles == {"t1"}

Titles == {"t2"}

Images == {"", "img"}

\* the newStatus values a status request may carry; "" is a missing newStatus
NewStatusInputs == Statuses \cup {""}

\* POST /issues stores the request body; a body may carry assignedStaffPhoto
BodyPhotos == {Absent, "px"}

(* --------------------------- store helpers ---------------------------- *)

\* the identity gate: authorization is the bearer credential of a caller, who
\* is then known by the verified email, or it is missing or invalid
verifyFirebaseToken(authorization) == authorization \in Callers


\* usersCollection.findOne({ email })
FindUserByEmail(email) ==
    IF \E u \in DOMAIN users : users[u].email = email
    THEN users[CHOOSE u \in DOMAIN users : users[u].email = email]
    ELSE [email |-> Absent, displayName |-> Absent, photoURL |-> Absent,
          role |-> Absent, isPremium |-> FALSE, isBlocked |-> FALSE]

HasUser(email) == \E u \in DOMAIN users : users[u].email = email

verifyAdmin(email) == HasUser(email) /\ FindUserByEmail(email).role = "admin"

\* a staff gate that an admin passes as well
verifyStaff_OrAdmin(email) ==
    HasUser(email) /\ FindUserByEmail(email).role \in {"staff", "admin"}

verifyStaff(email) == HasUser(email) /\ FindUserByEmail(email).role = "staff"

verifyCitizen(email) == HasUser(email) /\ FindUserByEmail(email).role = "citizen"

\* a timeline document; message is the fixed part of the handler's message
TimelineEntry(issueId, status, message, role, email) ==
    [issueId |-> issueId, status |-> status, message |-> message,
     updatedByRole |-> role, updatedByEmail |-> email]

logTimeline(tl, issueId, status, message, role, email) ==
    tl (+) SetToBag({TimelineEntry(issueId, status, message, role, email)})

TimelineRoom == BagCardinality(timelines) < MaxTimeline

\* the handler threw a TypeError on a null document before it answered: the
\* client gets no answer from the handler, at best the framework's generic 500
Thrown == 500

(* ------------------- GET /issues/:email/limit: the quota -------------- *)

\* the number of issues a free user may have before posting is refused
FreeLimit == 3

\* issuesCollection.countDocuments({ reporterEmail: email })
IssueCount(email) ==
    Cardinality({id \in DOMAIN issues : issues[id].reporterEmail = email})

LimitResponse(by, email) ==
    IF ~verifyCitizen(by) THEN 403
    ELSE IF ~HasUser(email) THEN 400
    ELSE IF ~FindUserByEmail(email).isPremium /\ IssueCount(email) >= FreeLimit THEN 429
    ELSE 200

(* --------------------------- POST /issues ----------------------------- *)

NewIssue(user, title, image, photo) ==
    [title |-> title, image |-> image,
     reporterEmail |-> user.email, reporterName |-> user.displayName,
     status |-> "pending", priority |-> "normal", isBoosted |-> FALSE,
     assignedStaffId |-> "", assignedStaffName |-> "", assignedStaffEmail |-> "",
     assignedStaffPhoto |-> photo]

\* insertOne gives the document a fresh _id
NextIssueId == inserted.issues + 1

\* a creation handler that counts the caller's issues itself
CreateIssueResponse_Quota(by) ==
    IF ~verifyCitizen(by) THEN 403
    ELSE IF ~FindUserByEmail(by).isPremium /\ IssueCount(by) >= FreeLimit THEN 403
    ELSE 200

CreateIssueResponse(by) ==
    IF ~verifyCitizen(by) THEN 403 ELSE 200

\* posting, the position of the senders of check-then-post requests, is for
\* the sender of the request to set
CreateIssue(by, title, image, photo) ==
    /\ UNCHANGED <<users, payments, accounts, calls, deleting, registering, running>>
    /\ CreateIssueResponse(by) = 200
    /\ TimelineRoom
    /\ inserted' = [inserted EXCEPT !.issues = NextIssueId]
    /\ issues' = (NextIssueId :> NewIssue(FindUserByEmail(by), title, image, photo))
                    @@ issues
    /\ timelines' = logTimeline(timelines, NextIssueId, "pending",
                                "Issue reported by citizen", "citizen", by)

(* ------------- GET /issues/:email/limit, then POST /issues ------------ *)

\* The client of a citizen asks /issues/:email/limit with the citizen's own
\* email and posts the issue when the answer allows it: two requests, and the
\* requests of other clients are handled between them.  posting[k] is the
\* position of client k, with the count the limit handler has seen (0 for a
\* premium user, whose issues it does not count).
CheckLimit(k, by) ==
    /\ posting[k].pc \in {"idle", "posted"}
    /\ LimitResponse(by, by) = 200
    /\ posting' = [posting EXCEPT ![k] =
                      [pc |-> "allowed", by |-> by,
                       count |-> IF FindUserByEmail(by).isPremium
                                 THEN 0 ELSE IssueCount(by)]]
    /\ UNCHANGED <<data, calls, inserted, accounts, deleting, registering, running>>

\* the POST /issues request of a client whose limit request was answered 200
PostIssue(k, title, image, photo) ==
    /\ posting[k].pc = "allowed"
    /\ CreateIssue(posting[k].by, title, image, photo)
    /\ posting' = [posting EXCEPT ![k].pc = "posted"]

(* -------------------- PATCH /citizen/issues/:id ----------------------- *)

EditedIssue(issue, title, image) ==
    IF Truthy(image)
    THEN [issue EXCEPT !.title = title, !.image = image]
    ELSE [issue EXCEPT !.title = title]

\* an edit handler without the pending test
EditIssueResponse_AnyStatus(by, id) ==
    IF ~verifyCitizen(by) THEN 403
    ELSE IF id \notin DOMAIN issues THEN 404
    ELSE IF issues[id].reporterEmail # by THEN 403
    ELSE 200

EditIssueResponse(by, id) ==
    IF ~verifyCitizen(by) THEN 403
    ELSE IF id \notin DOMAIN issues THEN 404
    ELSE IF issues[id].reporterEmail # by THEN 403
    ELSE IF issues[id].status # "pending" THEN 400
    ELSE 200

EditIssue(by, id, title, image) ==
    /\ UNCHANGED <<users, payments, inserted, others>>
    /\ EditIssueResponse(by, id) = 200
    /\ TimelineRoom
    /\ issues' = [issues EXCEPT ![id] = EditedIssue(issues[id], title, image)]
    /\ timelines' = logTimeline(timelines, id, issues[id].status,
                                "Issue updated by citizen", "citizen", by)

(* ------------------- PATCH /staff/issues/:id/status -------------------- *)

\* a transition table that lets a pending issue skip in_progress
allowedTransitions_Skip(currentStatus) ==
    CASE currentStatus = "pending"     -> {"in_progress", "working"}
      [] currentStatus = "in_progress" -> {"working"}
      [] currentStatus = "working"     -> {"resolved"}
      [] currentStatus = "resolved"    -> {"closed"}
      [] OTHER                         -> {}

allowedTransitions(currentStatus) ==
    CASE currentStatus = "pending"     -> {"in_progress"}
      [] currentStatus = "in_progress" -> {"working"}
      [] currentStatus = "working"     -> {"resolved"}
      [] currentStatus = "resolved"    -> {"closed"}
      [] OTHER                         -> {}

\* an ownership test that lets any staff member take an unassigned issue
IsAssignedTo_OrUnassigned(issue, email) ==
    issue.assignedStaffEmail \in {email, ""}

\* the ownership test of the status handler
IsAssignedTo(issue, email) == issue.assignedStaffEmail = email

AdvanceStatusResponse(by, id, newStatus) ==
    IF ~verifyStaff(by) THEN 403
    ELSE IF ~Truthy(newStatus) THEN 400
    ELSE IF id \notin DOMAIN issues THEN 404
    ELSE IF ~IsAssignedTo(issues[id], by) THEN 403
    ELSE IF newStatus \notin allowedTransitions(issues[id].status) THEN 400
    ELSE 200

AdvanceStatus(by, id, newStatus) ==
    /\ UNCHANGED <<users, payments, inserted, others>>
    /\ AdvanceStatusResponse(by, id, newStatus) = 200
    /\ TimelineRoom
    /\ issues' = [issues EXCEPT ![id].status = newStatus]
    /\ timelines' = logTimeline(timelines, id, newStatus,
                                "Status changed by staff", "staff", by)

(* ----------------- PATCH /admin/issues/:id/assign-staff ---------------- *)

\* no test before the assignment
AlreadyAssigned_Never(issue) == FALSE

\* the test the handler makes before it assigns
AlreadyAssigned(issue) == Truthy(issue.assignedStaffId)

AssignedIssue(issue, staffId, staff) ==
    [issue EXCEPT !.assignedStaffId = staffId,
                  !.assignedStaffName = staff.displayName,
                  !.assignedStaffEmail = staff.email,
                  !.assignedStaffPhoto = staff.photoURL]

AssignStaffResponse(by, id, staffId) ==
    IF ~verifyAdmin(by) THEN 403
    ELSE IF id \notin DOMAIN issues THEN Thrown      \* issue.assignedStaffId of null
    ELSE IF AlreadyAssigned(issues[id]) THEN 400
    ELSE IF staffId \notin DOMAIN users THEN Thrown  \* staff.displayName of null
    ELSE 200

AssignStaff(by, id, staffId) ==
    /\ UNCHANGED <<users, payments, inserted, others>>
    /\ AssignStaffResponse(by, id, staffId) = 200
    /\ TimelineRoom
    /\ issues' = [issues EXCEPT ![id] = AssignedIssue(issues[id], staffId, users[staffId])]
    /\ timelines' = logTimeline(timelines, id, issues[id].status,
                                "Issue assigned to staff", "admin", by)

(* -------------------- PATCH /admin/issues/:id/reject ------------------- *)

\* a rejection that does not look at the status
Rejectable_Any(issue) == TRUE

\* a rejection that is also taken for an issue a staff member has started on
Rejectable_Started(issue) == issue.status \in {"pending", "in_progress"}

Rejectable(issue) == issue.status = "pending"

RejectIssueResponse(by, id) ==
    IF ~verifyAdmin(by) THEN 403
    ELSE IF id \notin DOMAIN issues THEN Thrown      \* issue.status of null
    ELSE IF ~Rejectable(issues[id]) THEN 400
    ELSE 200

RejectIssue(by, id) ==
    /\ UNCHANGED <<users, payments, inserted, others>>
    /\ RejectIssueResponse(by, id) = 200
    /\ TimelineRoom
    /\ issues' = [issues EXCEPT ![id].status = "rejected"]
    /\ timelines' = logTimeline(timelines, id, "rejected", "Issue rejected by admin",
                                FindUserByEmail(by).role, by)

(* ------------------------ PATCH /payment-success ----------------------- *)

\* the checkout sessions the payment processor holds, by session id; the
\* transaction id of a session is its payment_intent, the rest is what
\* /create-checkout-session put in it.  issueId 0 is the empty string.
SessionIds == {"cs1", "cs2", "cs3", "cs4"}

Session(sid) ==
    CASE sid = "cs1" -> [payment_intent |-> "pi1", payment_status |-> "paid",
                         paymentType |-> "boost_issue", issueId |-> 1,
                         userEmail |-> "c@x", customer_email |-> "c@x"]
      [] sid = "cs2" -> [payment_intent |-> "pi2", payment_status |-> "paid",
                         paymentType |-> "subscription", issueId |-> 0,
                         userEmail |-> "c@x", customer_email |-> "c@x"]
      [] sid = "cs3" -> [payment_intent |-> "pi3", payment_status |-> "unpaid",
                         paymentType |-> "boost_issue", issueId |-> 1,
                         userEmail |-> "d@x", customer_email |-> "d@x"]
      [] OTHER       -> [payment_intent |-> Absent, payment_status |-> "unpaid",
                         paymentType |-> "subscription", issueId |-> 0,
                         userEmail |-> "d@x", customer_email |-> "d@x"]

\* the two early returns with success: false
Settles(session) ==
    Truthy(session.payment_intent) /\ session.payment_status = "paid"

PaymentDoc(session, now) ==
    [transactionId |-> session.payment_intent, paymentType |-> session.paymentType,
     issueId |-> session.issueId, customerEmail |-> session.customer_email,
     paymentStatus |-> session.payment_status, paidAt |-> now]

NoPayment ==
    [transactionId |-> Absent, paymentType |-> Absent, issueId |-> 0,
     customerEmail |-> Absent, paymentStatus |-> Absent, paidAt |-> 0]

PaymentsOf(p, transactionId) ==
    {i \in 1..Len(p) : p[i].transactionId = transactionId}

\* paymentsCollection.findOne({ transactionId }): the first match
FindPayment(p, transactionId) ==
    IF PaymentsOf(p, transactionId) = {} THEN NoPayment
    ELSE p[CHOOSE i \in PaymentsOf(p, transactionId) :
               \A j \in PaymentsOf(p, transactionId) : i <= j]

\* an insertOne in place of the upsert: every call stores a document
UpsertPayment_Insert(p, payment) == Append(p, payment)

\* an upsert with $set in place of $setOnInsert: a matched document is rewritten
UpsertPayment_Set(p, payment) ==
    IF PaymentsOf(p, payment.transactionId) = {} THEN Append(p, payment)
    ELSE [i \in 1..Len(p) |->
             IF p[i].transactionId = payment.transactionId THEN payment ELSE p[i]]

\* updateOne({ transactionId }, { $setOnInsert: payment }, { upsert: true }),
\* one atomic operation of the store: a matched document is left as it is
UpsertPayment(p, payment) ==
    IF PaymentsOf(p, payment.transactionId) = {} THEN Append(p, payment) ELSE p

\* paymentResult.upsertedCount === 1
UpsertedCount(p, payment) ==
    IF PaymentsOf(p, payment.transactionId) = {} THEN 1 ELSE 0

AppliesBoost(session) ==
    session.paymentType = "boost_issue" /\ session.issueId # 0

AppliesPremium(session) == session.paymentType = "subscription"

\* a boost that sets the flag and leaves the priority
BoostedIssues_FlagOnly(iss, issueId) ==
    IF issueId \in DOMAIN iss
    THEN [iss EXCEPT ![issueId].isBoosted = TRUE]
    ELSE iss

\* issuesCollection.updateOne({ _id }, { $set: { priority, isBoosted } })
BoostedIssues(iss, issueId) ==
    IF issueId \in DOMAIN iss
    THEN [iss EXCEPT ![issueId].priority = "high", ![issueId].isBoosted = TRUE]
    ELSE iss

\* usersCollection.updateOne({ email }, { $set: { isPremium: true } })
PremiumUsers(us, email) ==
    IF \E u \in DOMAIN us : us[u].email = email
    THEN [us EXCEPT ![CHOOSE u \in DOMAIN us : us[u].email = email].isPremium = TRUE]
    ELSE us

PaymentSuccessResponse(sid, now) ==
    LET session == Session(sid)
        payment == PaymentDoc(session, now)
    IN  IF ~Settles(session)
        THEN [success |-> FALSE, newlyCreated |-> FALSE, paymentInfo |-> NoPayment]
        ELSE [success |-> TRUE,
              newlyCreated |-> (UpsertedCount(payments, payment) = 1),
              paymentInfo |-> FindPayment(UpsertPayment(payments, payment),
                                          payment.transactionId)]

\* a settlement call that runs to completion before the next request starts
PaymentSuccess(sid, now) ==
    LET session == Session(sid)
        payment == PaymentDoc(session, now)
        newlyCreated == UpsertedCount(payments, payment) = 1
    IN  /\ UNCHANGED <<inserted, others>>
        /\ PaymentSuccessResponse(sid, now).success
        /\ payments' = UpsertPayment(payments, payment)
        /\ IF newlyCreated /\ AppliesBoost(session)
           THEN /\ TimelineRoom
                /\ issues' = BoostedIssues(issues, session.issueId)
                /\ timelines' = logTimeline(timelines, session.issueId, "boosted",
                                            "Issue priority boosted",
                                            "citizen", session.userEmail)
           ELSE UNCHANGED <<issues, timelines>>
        /\ IF newlyCreated /\ AppliesPremium(session)
           THEN users' = PremiumUsers(users, session.userEmail)
           ELSE UNCHANGED users

(* ------- PATCH /payment-success, one store operation at a time -------- *)

\* Call k is one request to /payment-success.  Its handler awaits every store
\* operation, so the handlers of concurrent calls interleave between them:
\*   idle -> upsert -> (boost -> log | premium) -> find -> done
\* calls[k] holds the handler's locals: session id, the payment's paidAt,
\* newlyCreated, and at the end the paymentInfo it answers with.

\* stripe.checkout.sessions.retrieve and the two early returns
SettleStart(k, sid, now) ==
    /\ calls[k].pc = "idle"
    /\ calls' = [calls EXCEPT ![k] =
                    [pc |-> IF Settles(Session(sid)) THEN "upsert" ELSE "done",
                     sid |-> sid, now |-> now, newlyCreated |-> FALSE,
                     paymentInfo |-> NoPayment]]
    /\ UNCHANGED <<data, inserted, accounts, deleting, posting,
                 registering, running>>

\* paymentsCollection.updateOne(query, update, { upsert: true })
SettleUpsert(k) ==
    LET session == Session(calls[k].sid)
        payment == PaymentDoc(session, calls[k].now)
        newlyCreated == UpsertedCount(payments, payment) = 1
    IN  /\ calls[k].pc = "upsert"
        /\ payments' = UpsertPayment(payments, payment)
        /\ calls' = [calls EXCEPT ![k].newlyCreated = newlyCreated,
                                  ![k].pc = IF newlyCreated /\ AppliesBoost(session)
                                            THEN "boost"
                                            ELSE IF newlyCreated /\ AppliesPremium(session)
                                            THEN "premium"
                                            ELSE "find"]
        /\ UNCHANGED <<users, issues, timelines, inserted, accounts, deleting, posting,
                 registering, running>>

\* issuesCollection.updateOne(issueQuery, issueUpdate)
SettleBoost(k) ==
    /\ calls[k].pc = "boost"
    /\ issues' = BoostedIssues(issues, Session(calls[k].sid).issueId)
    /\ calls' = [calls EXCEPT ![k].pc = "log"]
    /\ UNCHANGED <<users, payments, timelines, inserted, accounts, deleting, posting,
                 registering, running>>

\* logTimeline({ issueId, status: "boosted", ... })
SettleLog(k) ==
    /\ calls[k].pc = "log"
    /\ TimelineRoom
    /\ timelines' = logTimeline(timelines, Session(calls[k].sid).issueId, "boosted",
                                "Issue priority boosted",
                                "citizen", Session(calls[k].sid).userEmail)
    /\ calls' = [calls EXCEPT ![k].pc = "find"]
    /\ UNCHANGED <<users, issues, payments, inserted, accounts, deleting, posting,
                 registering, running>>

\* usersCollection.updateOne({ email: userEmail }, { $set: { isPremium: true } })
SettlePremium(k) ==
    /\ calls[k].pc = "premium"
    /\ users' = PremiumUsers(users, Session(calls[k].sid).userEmail)
    /\ calls' = [calls EXCEPT ![k].pc = "find"]
    /\ UNCHANGED <<issues, payments, timelines, inserted, accounts, deleting, posting,
                 registering, running>>

\* paymentsCollection.findOne({ transactionId }) and the response
SettleFind(k) ==
    /\ calls[k].pc = "find"
    /\ calls' = [calls EXCEPT
                    ![k].paymentInfo =
                        FindPayment(payments, Session(calls[k].sid).payment_intent),
                    ![k].pc = "done"]
    /\ UNCHANGED <<data, inserted, accounts, deleting, posting,
                 registering, running>>

\* the handler has no try/catch: when the store operation a call is about to
\* make after the upsert rejects (issuesCollection.updateOne, logTimeline's
\* insertOne, usersCollection.updateOne), or the process stops there, the call
\* ends without that operation and without the ones after it
SettleAbort(k) ==
    /\ calls[k].pc \in {"boost", "log", "premium"}
    /\ calls' = [calls EXCEPT ![k].pc = "done"]
    /\ UNCHANGED <<data, inserted, accounts, deleting, posting,
                 registering, running>>

\* no check-then-post request is under way in a slot
NoPost == [pc |-> "idle", by |-> "", count |-> 0]

\* a settlement call that has not been made yet
IdleCall ==
    [pc |-> "idle", sid |-> "", now |-> 0, newlyCreated |-> FALSE,
     paymentInfo |-> NoPayment]

(* -------------------- DELETE /citizen/issues/:id ---------------------- *)

\* a bag restricted to the entries of a set
BagOf(tl, entries) ==
    IF entries = {} THEN EmptyBag ELSE [e \in entries |-> tl[e]]

\* a deleteMany that removes the citizens' entries of the issue only
WithoutIssue_CitizenOnly(tl, id) ==
    BagOf(tl, {e \in DOMAIN tl : e.issueId # id \/ e.updatedByRole # "citizen"})

\* timelinesCollection.deleteMany({ issueId: id })
WithoutIssue(tl, id) ==
    BagOf(tl, {e \in DOMAIN tl : e.issueId # id})

\* a function without some of its arguments
Without(f, gone) == [x \in DOMAIN f \ gone |-> f[x]]

DeleteIssueResponse(by, id) ==
    IF ~verifyCitizen(by) THEN 403
    ELSE IF id \notin DOMAIN issues THEN Thrown
    ELSE IF issues[id].reporterEmail # by THEN 403
    ELSE 200

DeleteIssue(by, id) ==
    /\ UNCHANGED <<users, payments, inserted, others>>
    /\ DeleteIssueResponse(by, id) = 200
    /\ timelines' = WithoutIssue(timelines, id)
    /\ issues' = Without(issues, {id})

(* ---------------------------- POST /users ------------------------------ *)

\* a request that carries no bearer credential
NoCredential == "<none>"

\* the _ids insertOne gives to new user documents, in order
NewUserIds == <<"u6", "u7">>

NextUserId == NewUserIds[inserted.users + 1]

\* usersCollection.findOne(query): the query names the email of the body, and
\* is empty, matching every document, when the body has none
UserExists(body) ==
    IF Truthy(body.email) THEN HasUser(body.email) ELSE DOMAIN users # {}

NewUser(body) ==
    [email |-> body.email, displayName |-> body.displayName,
     photoURL |-> body.photoURL,
     role |-> IF Truthy(body.role) THEN body.role ELSE "citizen",
     isPremium |-> FALSE, isBlocked |-> FALSE]

\* the route has no middleware: authorization, a caller's credential or
\* NoCredential, is not looked at
Register(authorization, body) ==
    /\ UNCHANGED <<issues, payments, timelines, others>>
    /\ ~UserExists(body)
    /\ inserted.users < Len(NewUserIds)
    /\ users' = (NextUserId :> NewUser(body)) @@ users
    /\ inserted' = [inserted EXCEPT !.users = @ + 1]

(* ------------- POST /users, one store operation at a time ------------- *)

\* registering[k] holds the position of registration k and its request body:
\*   idle -> insert -> done, or idle -> done when the user exists
NoRegistration ==
    [pc |-> "idle",
     body |-> [email |-> Absent, displayName |-> Absent, photoURL |-> Absent,
               role |-> Absent]]

\* usersCollection.findOne(query) and the early return
RegisterLookup(k, authorization, body) ==
    /\ registering[k].pc = "idle"
    /\ registering' = [registering EXCEPT ![k] =
                          [pc |-> IF UserExists(body) THEN "done" ELSE "insert",
                           body |-> body]]
    /\ UNCHANGED <<data, inserted, accounts, calls, deleting, posting, running>>

\* usersCollection.insertOne(user)
RegisterInsert(k) ==
    /\ registering[k].pc = "insert"
    /\ inserted.users < Len(NewUserIds)
    /\ users' = (NextUserId :> NewUser(registering[k].body)) @@ users
    /\ inserted' = [inserted EXCEPT !.users = @ + 1]
    /\ registering' = [registering EXCEPT ![k].pc = "done"]
    /\ UNCHANGED <<issues, payments, timelines, accounts, calls, deleting, posting,
                   running>>

(* --------- PATCH /admin/users/:id/role, /admin/citizens/:id/block ------ *)

ChangeRoleResponse(by, id, role) ==
    IF ~verifyAdmin(by) THEN 403
    ELSE IF ~Truthy(role) THEN 400
    ELSE 200

\* usersCollection.updateOne({ _id }, { $set: { role } })
ChangeRole(by, id, role) ==
    /\ UNCHANGED <<issues, payments, timelines, inserted, others>>
    /\ ChangeRoleResponse(by, id, role) = 200
    /\ users' = IF id \in DOMAIN users THEN [users EXCEPT ![id].role = role] ELSE users

BlockResponse(by, id, isBlocked) ==
    IF ~verifyAdmin(by) THEN 403 ELSE 200

\* usersCollection.updateOne({ _id }, { $set: { isBlocked: !!isBlocked } })
Block(by, id, isBlocked) ==
    /\ UNCHANGED <<issues, payments, timelines, inserted, others>>
    /\ BlockResponse(by, id, isBlocked) = 200
    /\ users' = IF id \in DOMAIN users
                THEN [users EXCEPT ![id].isBlocked = isBlocked] ELSE users

(* ----------------------- DELETE /admin/users/:id ----------------------- *)

\* no user deletion is under way
NoDeletion == [pc |-> "idle", id |-> "", email |-> Absent]

\* a handler without the self-deletion test
DeleteUserResponse_Self(by, id) ==
    IF ~verifyAdmin(by) THEN 403
    ELSE IF id \notin DOMAIN users THEN Thrown
    ELSE 200

DeleteUserResponse(by, id) ==
    IF ~verifyAdmin(by) THEN 403
    ELSE IF id \notin DOMAIN users THEN Thrown
    ELSE IF by = users[id].email THEN 400
    ELSE 200

\* The handler awaits four operations in turn:
\*   idle -> detach -> timelines -> issues -> record -> idle
\* and skips the first three for a user document without email.  deleting
\* holds its locals: the _id of the query and the email of the user found.
\* The identity provider is taken to answer: it deletes the account or
\* reports that there is none, which the helper tolerates.

\* usersCollection.findOne(query) and the self-deletion test
DeleteUserStart(by, id) ==
    /\ deleting.pc = "idle"
    /\ DeleteUserResponse(by, id) = 200
    /\ deleting' = [pc |-> IF Truthy(users[id].email) THEN "detach" ELSE "record",
                    id |-> id, email |-> users[id].email]
    /\ UNCHANGED <<data, inserted, accounts, calls, posting,
                 registering, running>>

\* deleteFirebaseUserByEmail(user.email)
DeleteUserDetach ==
    /\ deleting.pc = "detach"
    /\ accounts' = accounts \ {deleting.email}
    /\ deleting' = [deleting EXCEPT !.pc = "timelines"]
    /\ UNCHANGED <<data, inserted, calls, posting,
                 registering, running>>

\* timelinesCollection.deleteMany({ updatedByEmail: user.email })
WithoutAuthor(tl, email) ==
    BagOf(tl, {e \in DOMAIN tl : e.updatedByEmail # email})

DeleteUserTimelines ==
    /\ deleting.pc = "timelines"
    /\ timelines' = WithoutAuthor(timelines, deleting.email)
    /\ deleting' = [deleting EXCEPT !.pc = "issues"]
    /\ UNCHANGED <<users, issues, payments, inserted, accounts, calls, posting,
                 registering, running>>

\* a deleteMany that spares the issues that are no longer pending
ReportedBy_Pending(email) ==
    {id \in DOMAIN issues :
        issues[id].reporterEmail = email /\ issues[id].status = "pending"}

\* the issues matched by { reporterEmail: user.email }
ReportedBy(email) == {id \in DOMAIN issues : issues[id].reporterEmail = email}

\* issuesCollection.deleteMany({ reporterEmail: user.email })
DeleteUserIssues ==
    /\ deleting.pc = "issues"
    /\ issues' = Without(issues, ReportedBy(deleting.email))
    /\ deleting' = [deleting EXCEPT !.pc = "record"]
    /\ UNCHANGED <<users, payments, timelines, inserted, accounts, calls, posting,
                 registering, running>>

\* usersCollection.deleteOne(query) and the response
DeleteUserRecord ==
    /\ deleting.pc = "record"
    /\ users' = Without(users, {deleting.id})
    /\ deleting' = NoDeletion
    /\ UNCHANGED <<issues, payments, timelines, inserted, accounts, calls, posting,
                 registering, running>>

(* ---- status, rejection, assignment: one store operation at a time ---- *)

\* Each of the three handlers reads the issue with findOne, tests what it has
\* read, writes with updateOne({ _id }, { $set }) and then logs; the handlers
\* of concurrent requests interleave between these operations:
\*   status, rejection:  idle -> write -> log -> done
\*   assignment:         idle -> staff -> write -> log -> done
\* and a handler that answers early, or throws, goes to done from where it is.
\* running[k] holds the locals of request k: the route (op), the verified
\* email (by), the role of req.currentUser, the id, the newStatus or staffId of
\* the body (arg), the status of the issue that was read, the staff document
\* that was read, and at the end the answer (code).
NoUser ==
    [email |-> Absent, displayName |-> Absent, photoURL |-> Absent,
     role |-> Absent, isPremium |-> FALSE, isBlocked |-> FALSE]

NoRun ==
    [pc |-> "idle", op |-> "", by |-> "", role |-> Absent, id |-> 0, arg |-> "",
     status |-> Absent, staff |-> NoUser, code |-> 0]

\* the locals of a request after the gate and the findOne of the issue; code is
\* the answer of a handler that goes on (200) or of one that has ended
Started(op, by, id, arg, code) ==
    [pc |-> IF code = 200 THEN "write" ELSE "done",
     op |-> op, by |-> by, role |-> FindUserByEmail(by).role, id |-> id, arg |-> arg,
     status |-> IF id \in DOMAIN issues THEN issues[id].status ELSE Absent,
     staff |-> NoUser, code |-> IF code = 200 THEN 0 ELSE code]

\* verifyStaff, the newStatus test, findOne and the tests on the issue
AdvanceRead(k, by, id, newStatus) ==
    /\ running[k].pc \in {"idle", "done"}
    /\ running' = [running EXCEPT ![k] =
                      Started("status", by, id, newStatus,
                              AdvanceStatusResponse(by, id, newStatus))]
    /\ UNCHANGED <<data, inserted, accounts, calls, deleting, posting, registering>>

\* issuesCollection.updateOne(query, { $set: { status: newStatus } })
AdvanceWrite(k) ==
    /\ running[k].pc = "write" /\ running[k].op = "status"
    /\ issues' = IF running[k].id \in DOMAIN issues
                 THEN [issues EXCEPT ![running[k].id].status = running[k].arg]
                 ELSE issues
    /\ running' = [running EXCEPT ![k].pc = "log"]
    /\ UNCHANGED <<users, payments, timelines, inserted, accounts, calls, deleting,
                   posting, registering>>

\* an entry that carries the status the handler has read
StatusEntry_Read(r) ==
    TimelineEntry(r.id, r.status, "Status changed by staff", "staff", r.by)

\* the entry the status handler logs for the request of locals r
StatusEntry(r) ==
    TimelineEntry(r.id, r.arg, "Status changed by staff", "staff", r.by)

\* logTimeline({ issueId: id, status: newStatus, ... }) and the response
AdvanceLog(k) ==
    /\ running[k].pc = "log" /\ running[k].op = "status"
    /\ TimelineRoom
    /\ timelines' = timelines (+) SetToBag({StatusEntry(running[k])})
    /\ running' = [running EXCEPT ![k].pc = "done", ![k].code = 200]
    /\ UNCHANGED <<users, issues, payments, inserted, accounts, calls, deleting,
                   posting, registering>>

\* verifyAdmin, findOne and the status test
RejectRead(k, by, id) ==
    /\ running[k].pc \in {"idle", "done"}
    /\ running' = [running EXCEPT ![k] =
                      Started("reject", by, id, "", RejectIssueResponse(by, id))]
    /\ UNCHANGED <<data, inserted, accounts, calls, deleting, posting, registering>>

\* issuesCollection.updateOne(query, { $set: { status: "rejected" } })
RejectWrite(k) ==
    /\ running[k].pc = "write" /\ running[k].op = "reject"
    /\ issues' = IF running[k].id \in DOMAIN issues
                 THEN [issues EXCEPT ![running[k].id].status = "rejected"]
                 ELSE issues
    /\ running' = [running EXCEPT ![k].pc = "log"]
    /\ UNCHANGED <<users, payments, timelines, inserted, accounts, calls, deleting,
                   posting, registering>>

\* logTimeline({ issueId: id, status: "rejected", ... }) and the response
RejectLog(k) ==
    /\ running[k].pc = "log" /\ running[k].op = "reject"
    /\ TimelineRoom
    /\ timelines' = logTimeline(timelines, running[k].id, "rejected",
                                "Issue rejected by admin", running[k].role,
                                running[k].by)
    /\ running' = [running EXCEPT ![k].pc = "done", ![k].code = 200]
    /\ UNCHANGED <<users, issues, payments, inserted, accounts, calls, deleting,
                   posting, registering>>

\* verifyAdmin, findOne of the issue and the assignedStaffId test
AssignRead(k, by, id, staffId) ==
    /\ running[k].pc \in {"idle", "done"}
    /\ LET code == IF ~verifyAdmin(by) THEN 403
                   ELSE IF id \notin DOMAIN issues THEN Thrown
                   ELSE IF AlreadyAssigned(issues[id]) THEN 400
                   ELSE 200
           r == Started("assign", by, id, staffId, code)
       IN  running' = [running EXCEPT ![k] =
                          IF code = 200 THEN [r EXCEPT !.pc = "staff"] ELSE r]
    /\ UNCHANGED <<data, inserted, accounts, calls, deleting, posting, registering>>

\* usersCollection.findOne(staffQuery); updateDoc reads staff.displayName
AssignFindStaff(k) ==
    /\ running[k].pc = "staff" /\ running[k].op = "assign"
    /\ running' = [running EXCEPT ![k] =
                      IF running[k].arg \in DOMAIN users
                      THEN [@ EXCEPT !.pc = "write", !.staff = users[running[k].arg]]
                      ELSE [@ EXCEPT !.pc = "done", !.code = Thrown]]
    /\ UNCHANGED <<data, inserted, accounts, calls, deleting, posting, registering>>

\* issuesCollection.updateOne(issueQuery, updateDoc)
AssignWrite(k) ==
    /\ running[k].pc = "write" /\ running[k].op = "assign"
    /\ issues' = IF running[k].id \in DOMAIN issues
                 THEN [issues EXCEPT ![running[k].id] =
                          AssignedIssue(@, running[k].arg, running[k].staff)]
                 ELSE issues
    /\ running' = [running EXCEPT ![k].pc = "log"]
    /\ UNCHANGED <<users, payments, timelines, inserted, accounts, calls, deleting,
                   posting, registering>>

\* logTimeline({ issueId: id, status: issue.status, ... }) and the response
AssignLog(k) ==
    /\ running[k].pc = "log" /\ running[k].op = "assign"
    /\ TimelineRoom
    /\ timelines' = logTimeline(timelines, running[k].id, running[k].status,
                                "Issue assigned to staff", "admin", running[k].by)
    /\ running' = [running EXCEPT ![k].pc = "done", ![k].code = 200]
    /\ UNCHANGED <<users, issues, payments, inserted, accounts, calls, deleting,
                   posting, registering>>

(* ------------------------------- Init --------------------------------- *)

Init ==
    /\ users = SeedUsers
    /\ issues = << >>
    /\ payments = << >>
    /\ timelines = EmptyBag
    /\ calls = [k \in CallIds |-> IdleCall]
    /\ inserted = [issues |-> 0, users |-> 0]
    /\ accounts = Callers
    /\ deleting = NoDeletion
    /\ posting = [k \in PostIds |-> NoPost]
    /\ registering = [k \in RegistrationIds |-> NoRegistration]
    /\ running = [k \in RunIds |-> NoRun]


(* ------------------------- specifications ------------------------------ *)

Next ==
    \/ \E by \in Callers, title \in CreateTitles, photo \in BodyPhotos :
          /\ NextIssueId \in IssueIds
          /\ CreateIssue(by, title, "", photo)
          /\ UNCHANGED posting
    \/ \E by \in Callers, id \in IssueIds, title \in Titles, image \in Images :
          EditIssue(by, id, title, image)
    \/ \E by \in Callers, id \in IssueIds, newStatus \in NewStatusInputs :
          AdvanceStatus(by, id, newStatus)
    \/ \E by \in Callers, id \in IssueIds, staffId \in StaffIdInputs :
          AssignStaff(by, id, staffId)
    \/ \E by \in Callers, id \in IssueIds : RejectIssue(by, id)
    \/ \E sid \in SessionIds, now \in Times : PaymentSuccess(sid, now)

\* every request runs to completion before the next one starts
Spec == Init /\ [][Next]_vars

NextSettle ==
    \/ \E by \in Callers, title \in CreateTitles, photo \in BodyPhotos :
          /\ NextIssueId \in IssueIds
          /\ CreateIssue(by, title, "", photo)
          /\ UNCHANGED posting
    \/ \E k \in CallIds, sid \in SessionIds, now \in Times : SettleStart(k, sid, now)
    \/ \E k \in CallIds : SettleUpsert(k)
    \/ \E k \in CallIds : SettleBoost(k)
    \/ \E k \in CallIds : SettleLog(k)
    \/ \E k \in CallIds : SettlePremium(k)
    \/ \E k \in CallIds : SettleFind(k)

\* up to MaxCalls settlement calls whose store operations interleave
SpecSettle == Init /\ [][NextSettle]_vars

\* a checkout session is made for an issue that is stored: a settlement call
\* is made for a session without issue or with a stored one
NextAbort ==
    \/ \E by \in Callers, title \in CreateTitles, photo \in BodyPhotos :
          /\ NextIssueId \in IssueIds
          /\ CreateIssue(by, title, "", photo)
          /\ UNCHANGED posting
    \/ \E k \in CallIds, sid \in SessionIds, now \in Times :
          /\ Session(sid).issueId \in DOMAIN issues \cup {0}
          /\ SettleStart(k, sid, now)
    \/ \E k \in CallIds : SettleUpsert(k)
    \/ \E k \in CallIds : SettleBoost(k)
    \/ \E k \in CallIds : SettleLog(k)
    \/ \E k \in CallIds : SettlePremium(k)
    \/ \E k \in CallIds : SettleFind(k)
    \/ \E k \in CallIds : SettleAbort(k)

\* settlement calls that may end at a store operation that fails
SpecAbort == Init /\ [][NextAbort]_vars

\* the staff a cascade specification assigns, and the users it deletes
CascadeStaff == {"u2"}

CascadeDeleted == {"u1", "u2", "u4", "u5", "u9"}

\* requests are handled one at a time: a request starts when no deletion is
\* under way
NextCascade ==
    \/ /\ deleting.pc = "idle"
       /\ \/ \E by \in Callers, title \in CreateTitles :
                /\ NextIssueId \in IssueIds
                /\ CreateIssue(by, title, "", Absent)
                /\ UNCHANGED posting
          \/ \E by \in Callers, id \in IssueIds, staffId \in CascadeStaff :
                AssignStaff(by, id, staffId)
          \/ \E by \in Callers, id \in IssueIds, newStatus \in NewStatusInputs :
                AdvanceStatus(by, id, newStatus)
          \/ \E by \in Callers, id \in IssueIds : DeleteIssue(by, id)
          \/ \E now \in Times : PaymentSuccess("cs1", now)
          \/ \E by \in Callers, id \in CascadeDeleted : DeleteUserStart(by, id)
    \/ DeleteUserDetach
    \/ DeleteUserTimelines
    \/ DeleteUserIssues
    \/ DeleteUserRecord

\* issues that are reported, assigned, advanced, boosted and deleted, by their
\* reporter or with the user an admin deletes
SpecCascade == Init /\ [][NextCascade]_vars

\* the request bodies of POST /users
RegisterBodies ==
    [email : {"n@x", "c@x", Absent}, displayName : {"N"}, photoURL : {Absent},
     role : {Absent, "admin", "root"}]

\* the users whose role or blocked flag the admins of the users
\* specification set, and the roles they ask for; "" is a missing role
ManagedUsers == {"u2", "u4", "u6"}

BlockedUsers == {"u4"}

RoleInputs == {"", "citizen", "staff", "admin"}

NextUsers ==
    \/ \E authorization \in Callers \cup {NoCredential}, body \in RegisterBodies :
          Register(authorization, body)
    \/ \E by \in Callers, id \in ManagedUsers, role \in RoleInputs :
          ChangeRole(by, id, role)
    \/ \E by \in Callers, id \in BlockedUsers, isBlocked \in BOOLEAN :
          Block(by, id, isBlocked)
    \/ \E by \in Callers, title \in CreateTitles :
          /\ NextIssueId \in IssueIds
          /\ CreateIssue(by, title, "", Absent)
          /\ UNCHANGED posting
    \/ \E by \in Callers, id \in IssueIds, staffId \in CascadeStaff :
          AssignStaff(by, id, staffId)

\* users that register and whose role and blocked flag are set, and the
\* issues they report and assign with the role they have
SpecUsers == Init /\ [][NextUsers]_vars

NextRegister ==
    \/ \E k \in RegistrationIds, authorization \in Callers \cup {NoCredential},
          body \in RegisterBodies :
          RegisterLookup(k, authorization, body)
    \/ \E k \in RegistrationIds : RegisterInsert(k)
    \/ \E by \in Callers, id \in ManagedUsers, role \in RoleInputs :
          ChangeRole(by, id, role)
    \/ \E by \in Callers, id \in ManagedUsers, isBlocked \in BOOLEAN :
          Block(by, id, isBlocked)

\* up to MaxRegistrations registration requests whose findOne and insertOne
\* interleave, while admins set roles and blocked flags
SpecRegister == Init /\ [][NextRegister]_vars

\* the staff the admins of the race specification assign
RaceStaff == {"u2", "u3"}

\* the issues it is about
RaceIssues == {1}

\* the newStatus values of its status requests; "" is a missing newStatus
RaceStatuses == {"", "in_progress", "working"}

\* the callers of its requests: the admin, a staff member and a citizen
RaceCallers == {"a@x", "s@x", "c@x"}

NextRace ==
    \/ \E by \in RaceCallers, title \in CreateTitles :
          /\ NextIssueId \in RaceIssues
          /\ CreateIssue(by, title, "", Absent)
          /\ UNCHANGED posting
    \/ \E k \in RunIds, by \in RaceCallers, id \in RaceIssues, t \in RaceStatuses :
          AdvanceRead(k, by, id, t)
    \/ \E k \in RunIds : AdvanceWrite(k)
    \/ \E k \in RunIds : AdvanceLog(k)
    \/ \E k \in RunIds, by \in RaceCallers, id \in RaceIssues : RejectRead(k, by, id)
    \/ \E k \in RunIds : RejectWrite(k)
    \/ \E k \in RunIds : RejectLog(k)
    \/ \E k \in RunIds, by \in RaceCallers, id \in RaceIssues, staffId \in RaceStaff :
          AssignRead(k, by, id, staffId)
    \/ \E k \in RunIds : AssignFindStaff(k)
    \/ \E k \in RunIds : AssignWrite(k)
    \/ \E k \in RunIds : AssignLog(k)

\* up to MaxRuns status, rejection and assignment requests on one issue, whose
\* store operations interleave
SpecRace == Init /\ [][NextRace]_vars

\* the issues of the quota specification
MaxQuotaIssues == 4

\* the citizens that post in the quota specification
QuotaCallers == {"c@x", "d@x"}

NextQuota ==
    \/ \E by \in QuotaCallers, title \in CreateTitles :
          /\ NextIssueId <= MaxQuotaIssues
          /\ CreateIssue(by, title, "", Absent)
          /\ UNCHANGED posting
    \/ \E k \in PostIds, by \in QuotaCallers : CheckLimit(k, by)
    \/ \E k \in PostIds, title \in CreateTitles :
          /\ NextIssueId <= MaxQuotaIssues
          /\ PostIssue(k, title, "", Absent)
    \/ \E now \in Times : PaymentSuccess("cs2", now)

\* citizens who post with and without asking for their limit first, and the
\* settlement of a subscription
SpecQuota == Init /\ [][NextQuota]_vars

(* ------------------------------ claims --------------------------------- *)

IsStaff(email) == \E u \in DOMAIN users : users[u].email = email /\ users[u].role = "staff"

IsAdmin(email) == \E u \in DOMAIN users : users[u].email = email /\ users[u].role = "admin"

IsCitizen(email) == \E u \in DOMAIN users : users[u].email = email /\ users[u].role = "citizen"

RequestedStatuses == NewStatusInputs \ {""}

AdvanceEdges ==
    {<<"pending", "in_progress">>, <<"in_progress", "working">>,
     <<"working", "resolved">>, <<"resolved", "closed">>}

\* C1: a status request by the staff member assigned to an existing issue, from
\* status s to a requested status t, is answered 200 and stores t iff (s, t) is
\* one of the four forward edges; every other such request (t = s, any request
\* on a closed or rejected issue, ...) is answered 400 and leaves the status.
C1_AdvanceIffAllowedEdge ==
    /\ [](\A by \in Callers, id \in DOMAIN issues, t \in RequestedStatuses :
            (IsStaff(by) /\ issues[id].assignedStaffEmail = by) =>
                AdvanceStatusResponse(by, id, t) =
                    IF <<issues[id].status, t>> \in AdvanceEdges THEN 200 ELSE 400)
    /\ [][\A by \in Callers, id \in DOMAIN issues, t \in RequestedStatuses :
            (IsStaff(by) /\ issues[id].assignedStaffEmail = by
                /\ AdvanceStatus(by, id, t)) =>
                issues'[id].status =
                    IF <<issues[id].status, t>> \in AdvanceEdges
                    THEN t ELSE issues[id].status]_vars

\* the assigned staff member has taken an issue along all four edges
C1_Witness ==
    \E id \in DOMAIN issues :
        /\ issues[id].status = "closed"
        /\ \A t \in {"in_progress", "working", "resolved", "closed"} :
              BagIn(TimelineEntry(id, t, "Status changed by staff", "staff",
                                  issues[id].assignedStaffEmail), timelines)

LifecycleEdges == AdvanceEdges \cup {<<"pending", "rejected">>}

\* C2: whatever request is served (creation, status advance, rejection,
\* assignment, citizen edit, settlement), an issue's stored status either stays
\* or moves along one of pending->in_progress->working->resolved->closed and
\* pending->rejected; a new issue starts pending.
C2_StatusFollowsEdges ==
    [][/\ \A id \in DOMAIN issues :
            /\ id \in DOMAIN issues'
            /\ \/ issues'[id].status = issues[id].status
               \/ <<issues[id].status, issues'[id].status>> \in LifecycleEdges
       /\ \A id \in DOMAIN issues' \ DOMAIN issues :
            issues'[id].status = "pending"]_vars

\* one issue has been rejected and another has been advanced
C2_Witness ==
    \E i, j \in DOMAIN issues :
        /\ issues[i].status = "rejected"
        /\ issues[j].status = "in_progress"

\* the calls made so far for a transaction, those still running, and those
\* that saw their upsert insert the document
CallsFor(tx) ==
    {k \in CallIds : calls[k].pc # "idle" /\ Session(calls[k].sid).payment_intent = tx}

RunningFor(tx) == {k \in CallsFor(tx) : calls[k].pc # "done"}

FreshFor(tx) == {k \in CallsFor(tx) : calls[k].newlyCreated}

PaidSessions ==
    {sid \in SessionIds :
        /\ Session(sid).payment_intent # Absent
        /\ Session(sid).payment_status = "paid"}

BoostEntries(session) ==
    CopiesIn(TimelineEntry(session.issueId, "boosted", "Issue priority boosted",
                           "citizen", session.userEmail), timelines)

C4_ReplayChangesNothing ==
    /\ [](\A k \in CallIds :
            (calls[k].pc = "done" /\ calls[k].sid \in PaidSessions) =>
                /\ \E i \in 1..Len(payments) :
                      /\ payments[i].transactionId = Session(calls[k].sid).payment_intent
                      /\ calls[k].paymentInfo = payments[i]
                /\ \A j \in CallIds :
                      (calls[j].pc = "done" /\ calls[j].sid = calls[k].sid) =>
                          calls[j].paymentInfo = calls[k].paymentInfo)
    /\ [][/\ \A n \in 1..Len(payments) :
                Len(payments') >= n /\ payments'[n] = payments[n]
           /\ \A c \in CallIds :
                (/\ calls'[c] # calls[c]
                 /\ calls[c].pc = "upsert"
                 /\ \E m \in 1..Len(payments) :
                       payments[m].transactionId = Session(calls[c].sid).payment_intent) =>
                    /\ UNCHANGED data
                    /\ calls'[c].pc = "find"
                    /\ ~calls'[c].newlyCreated
           /\ \A d \in CallIds :
                (calls'[d] # calls[d] /\ calls[d].pc = "find") =>
                    /\ UNCHANGED data
                    /\ calls'[d].pc = "done"]_vars

\* the subscription was settled at time 1 by call 1 and replayed at time 2 by
\* call 2, which inserted nothing and answered with the document of time 1
C4_Witness ==
    /\ calls[1].sid = "cs2" /\ calls[2].sid = "cs2"
    /\ calls[1].pc = "done" /\ calls[1].newlyCreated /\ calls[1].now = 1
    /\ calls[2].pc = "done" /\ ~calls[2].newlyCreated /\ calls[2].now = 2
    /\ calls[2].paymentInfo.paidAt = 1
    /\ Len(payments) = 1

\* C5: a rejection by an admin of an existing issue is answered 200 iff the
\* stored status is pending, and 400 for every other status; a rejection that
\* takes place finds the issue pending, changes nothing of the issues but that
\* issue's status, now rejected, and adds one timeline entry, of status
\* rejected and actor role admin.
C5_RejectIffPending ==
    /\ [](\A by \in Callers, id \in DOMAIN issues :
            IsAdmin(by) =>
                RejectIssueResponse(by, id) =
                    IF issues[id].status = "pending" THEN 200 ELSE 400)
    /\ [][\A by \in Callers, id \in DOMAIN issues :
            (IsAdmin(by) /\ RejectIssue(by, id)) =>
                /\ issues[id].status = "pending"
                /\ issues' = [issues EXCEPT ![id].status = "rejected"]
                /\ timelines' = timelines (+) SetToBag({
                        [issueId |-> id, status |-> "rejected",
                         message |-> "Issue rejected by admin",
                         updatedByRole |-> "admin", updatedByEmail |-> by]})]_vars

\* an assigned, still pending issue has been rejected by the admin
C5_Witness ==
    \E id \in DOMAIN issues :
        /\ issues[id].status = "rejected"
        /\ issues[id].assignedStaffId = "u2"
        /\ CopiesIn([issueId |-> id, status |-> "rejected",
                     message |-> "Issue rejected by admin",
                     updatedByRole |-> "admin", updatedByEmail |-> "a@x"], timelines) = 1

\* C6: a status request that names a status, on an existing issue whose
\* assignedStaffEmail is not the caller's email (an unassigned issue included),
\* is answered 403 whatever the status, an allowed successor or not, and is no
\* change of the store; a staff member's request on an id of no issue is
\* answered 404: NotFound is decided before Forbidden, Forbidden before
\* InvalidTransition.
C6_NotAssigneeForbidden ==
    /\ [](\A by \in Callers, id \in IssueIds, t \in RequestedStatuses :
            /\ (id \in DOMAIN issues /\ issues[id].assignedStaffEmail # by) =>
                  AdvanceStatusResponse(by, id, t) = 403
            /\ (id \notin DOMAIN issues /\ IsStaff(by)) =>
                  AdvanceStatusResponse(by, id, t) = 404)
    /\ [][\A by \in Callers, id \in DOMAIN issues, t \in RequestedStatuses :
            issues[id].assignedStaffEmail # by => ~AdvanceStatus(by, id, t)]_vars

\* a pending issue is assigned to staff member s, so that staff member t asks
\* for its allowed successor in vain, and another issue is unassigned
C6_Witness ==
    \E i, j \in DOMAIN issues :
        /\ issues[i].status = "pending" /\ issues[i].assignedStaffEmail = "s@x"
        /\ AdvanceStatusResponse("t@x", i, "in_progress") = 403
        /\ issues[j].status = "pending" /\ issues[j].assignedStaffEmail = ""
        /\ AdvanceStatusResponse("s@x", j, "in_progress") = 403

HasAssignee(issue) ==
    \/ Truthy(issue.assignedStaffId)
    \/ Truthy(issue.assignedStaffName)
    \/ Truthy(issue.assignedStaffEmail)

AssignmentFields(issue) ==
    <<issue.assignedStaffId, issue.assignedStaffName,
      issue.assignedStaffEmail, issue.assignedStaffPhoto>>

\* C7: an assignment request by an admin on an issue that has a staff member
\* assigned is answered 400 and is no change of the store; no request at all
\* changes the four assignment fields of an issue that has an assignee.
C7_AssigneeNeverReplaced ==
    /\ [](\A by \in Callers, id \in DOMAIN issues, staffId \in StaffIdInputs :
            (IsAdmin(by) /\ HasAssignee(issues[id])) =>
                AssignStaffResponse(by, id, staffId) = 400)
    /\ [][\A id \in DOMAIN issues :
            HasAssignee(issues[id]) =>
                /\ id \in DOMAIN issues' =>
                      AssignmentFields(issues'[id]) = AssignmentFields(issues[id])
                /\ \A by \in Callers, staffId \in StaffIdInputs :
                      ~AssignStaff(by, id, staffId)]_vars

\* an issue assigned to staff member s has been advanced by s, and its one
\* 'assigned' timeline entry is still the only one
C7_Witness ==
    \E id \in DOMAIN issues :
        /\ issues[id].assignedStaffId = "u2"
        /\ issues[id].status = "in_progress"
        /\ CopiesIn([issueId |-> id, status |-> "pending",
                     message |-> "Issue assigned to staff",
                     updatedByRole |-> "admin", updatedByEmail |-> "a@x"], timelines) = 1

\* C8: for every stored issue the four assignment fields (assigned staff id,
\* name, email, photo) are all empty or all populated.
C8_AssignmentAllOrNone ==
    \A id \in DOMAIN issues :
        \/ \A n \in 1..4 : ~Truthy(AssignmentFields(issues[id])[n])
        \/ \A n \in 1..4 : Truthy(AssignmentFields(issues[id])[n])

\* C9: an assignment request by an admin on an unassigned issue that names a
\* staff id of no user document is answered 404.
C9_MissingStaffNotFound ==
    \A by \in Callers, id \in DOMAIN issues, staffId \in StaffIdInputs :
        (IsAdmin(by) /\ ~HasAssignee(issues[id]) /\ staffId \notin DOMAIN users) =>
            AssignStaffResponse(by, id, staffId) = 404

\* C10: an edit of an existing issue by a citizen is answered 200 iff the
\* caller is the reporter and the status is pending, 403 if the caller is not
\* the reporter, 400 if the reporter's issue is not pending; an edit that takes
\* place writes the title, and the image when one is given, of that issue and
\* nothing else of the issues, users or payments, and adds one timeline entry,
\* of status pending and actor role citizen.
C10_EditByReporterWhilePending ==
    /\ [](\A by \in Callers, id \in DOMAIN issues :
            IsCitizen(by) =>
                EditIssueResponse(by, id) =
                    IF issues[id].reporterEmail # by THEN 403
                    ELSE IF issues[id].status # "pending" THEN 400
                    ELSE 200)
    /\ [][\A by \in Callers, id \in DOMAIN issues, title \in Titles, image \in Images :
            (IsCitizen(by) /\ EditIssue(by, id, title, image)) =>
                /\ issues[id].reporterEmail = by
                /\ issues[id].status = "pending"
                /\ issues' = [issues EXCEPT
                                 ![id].title = title,
                                 ![id].image = IF image = "" THEN @ ELSE image]
                /\ timelines' = timelines (+) SetToBag({
                        [issueId |-> id, status |-> "pending",
                         message |-> "Issue updated by citizen",
                         updatedByRole |-> "citizen", updatedByEmail |-> by]})
                /\ UNCHANGED <<users, payments>>]_vars

\* reporter c has edited an issue twice, giving it an image the first time and
\* none the second, while another issue, of reporter d, is no longer pending
C10_Witness ==
    \E i, j \in DOMAIN issues :
        /\ issues[i].reporterEmail = "c@x" /\ issues[i].status = "pending"
        /\ issues[i].title = "t2" /\ issues[i].image = "img"
        /\ CopiesIn([issueId |-> i, status |-> "pending",
                     message |-> "Issue updated by citizen",
                     updatedByRole |-> "citizen", updatedByEmail |-> "c@x"], timelines) = 2
        /\ issues[j].reporterEmail = "d@x" /\ issues[j].status = "rejected"
        /\ EditIssueResponse("d@x", j) = 400
        /\ EditIssueResponse("d@x", i) = 403

\* C11: an edit of an issue whose status is in_progress is answered 400
\* (InvalidState) for every caller that passes the citizen gate, the reporter
\* or not.
C11_InProgressEditInvalidState ==
    \A by \in Callers, id \in DOMAIN issues :
        (IsCitizen(by) /\ issues[id].status = "in_progress") =>
            EditIssueResponse(by, id) = 400

\* C12: a create-issue request by a citizen who is not premium and has
\* FreeLimit or more issues is not answered with success.
C12_FreeQuotaEnforced ==
    \A by \in Callers :
        (/\ IsCitizen(by)
         /\ ~FindUserByEmail(by).isPremium
         /\ IssueCount(by) >= FreeLimit) =>
            CreateIssueResponse(by) # 200

\* C13: the limit request is answered 200 for a free user only on a count
\* below FreeLimit, and the post that follows it is answered 200 whatever the
\* count has become in between: nothing ties the count that was seen to the
\* insert.
C13_CheckThenPostNotAtomic ==
    \A k \in PostIds :
        posting[k].pc = "allowed" =>
            /\ posting[k].count < FreeLimit
            /\ CreateIssueResponse(posting[k].by) = 200

\* two clients of free citizen c, who had 2 issues, both saw the count 2 and
\* both posted: the citizen has 4 issues and has never been premium
C13_Witness ==
    /\ \A k \in PostIds : posting[k] = [pc |-> "posted", by |-> "c@x", count |-> 2]
    /\ IssueCount("c@x") = 4
    /\ ~FindUserByEmail("c@x").isPremium
    /\ payments = << >>

AuthoredBy(tl, email) == {e \in DOMAIN tl : e.updatedByEmail = email}

\* C14: an admin's request to delete an existing user other than the admin is
\* answered 200 (400 for the admin's own document); the handler detaches the
\* user from the identity provider, then deletes the timeline entries authored
\* by the user's email, then the issues reported by it, then the user document:
\* when the document goes, and not before, the deletion is complete, and then
\* no user document, no issue and no timeline entry of that email is left.
C14_UserDeletionCascades ==
    /\ [](/\ \A by \in Callers, id \in DOMAIN users :
                (deleting.pc = "idle" /\ IsAdmin(by)) =>
                    DeleteUserResponse(by, id) =
                        IF users[id].email = by THEN 400 ELSE 200
          /\ deleting.pc # "idle" => deleting.id \in DOMAIN users
          /\ deleting.pc \in {"timelines", "issues"} =>
                deleting.email \notin accounts
          /\ deleting.pc = "issues" => AuthoredBy(timelines, deleting.email) = {}
          /\ (deleting.pc = "record" /\ Truthy(deleting.email)) =>
                /\ deleting.email \notin accounts
                /\ AuthoredBy(timelines, deleting.email) = {}
                /\ \A id \in DOMAIN issues : issues[id].reporterEmail # deleting.email)
    /\ [][DeleteUserRecord =>
            /\ deleting.id \notin DOMAIN users'
            /\ \A u \in DOMAIN users' : users'[u].email # deleting.email
            /\ \A id \in DOMAIN issues' : issues'[id].reporterEmail # deleting.email
            /\ AuthoredBy(timelines', deleting.email) = {}]_vars

\* citizen c, whose issue 1 had been assigned by the admin, has been deleted:
\* the issue is gone, and the issue of citizen d is still there
C14_Witness ==
    /\ deleting = NoDeletion
    /\ "u4" \notin DOMAIN users
    /\ "c@x" \notin accounts
    /\ DOMAIN issues = {2}
    /\ issues[2].reporterEmail = "d@x"
    /\ \E e \in DOMAIN timelines : e.issueId = 1 /\ e.updatedByRole = "admin"

\* C15: when no request is under way, no timeline entry references an issue
\* that was inserted and is no longer stored.
C15_NoEntryOfDeletedIssue ==
    deleting.pc = "idle" =>
        \A e \in DOMAIN timelines :
            e.issueId <= inserted.issues => e.issueId \in DOMAIN issues

\* C16: a step removes no copy of a timeline entry whose issue is stored
\* before and after the request the step belongs to (an issue reported by the
\* user under deletion is not: it goes with a later step of that request), and
\* adds entries only.
C16_TimelineAppendOnly ==
    [][\A e \in DOMAIN timelines :
          (/\ e.issueId \in DOMAIN issues
           /\ e.issueId \in DOMAIN issues'
           /\ deleting.pc # "idle" =>
                 issues[e.issueId].reporterEmail # deleting.email) =>
              /\ e \in DOMAIN timelines'
              /\ timelines'[e] >= timelines[e]]_vars

\* C17: a citizen's request to delete an existing issue is answered 200 iff
\* the citizen is its reporter, whatever its status, and 403 otherwise; a
\* deletion that takes place removes that issue and every timeline entry of
\* its id, and changes no other issue, no other timeline entry, no user and no
\* payment.
C17_ReporterDeletesIssue ==
    /\ [](\A by \in Callers, id \in DOMAIN issues :
            IsCitizen(by) =>
                DeleteIssueResponse(by, id) =
                    IF issues[id].reporterEmail = by THEN 200 ELSE 403)
    /\ [][\A by \in Callers, id \in DOMAIN issues :
            DeleteIssue(by, id) =>
                /\ issues[id].reporterEmail = by
                /\ DOMAIN issues' = DOMAIN issues \ {id}
                /\ \A j \in DOMAIN issues' : issues'[j] = issues[j]
                /\ DOMAIN timelines' = {e \in DOMAIN timelines : e.issueId # id}
                /\ \A e \in DOMAIN timelines' : timelines'[e] = timelines[e]
                /\ UNCHANGED <<users, payments>>]_vars

\* no user has been deleted; issue 1 has been deleted and nothing of it is
\* left, and issue 2, in progress with entries of its reporter, the admin and
\* the staff, is for its reporter d to delete and not for citizen c
C17_Witness ==
    /\ DOMAIN users = DOMAIN SeedUsers /\ accounts = Callers
    /\ inserted.issues = 2 /\ DOMAIN issues = {2}
    /\ \A e \in DOMAIN timelines : e.issueId = 2
    /\ issues[2].status = "in_progress"
    /\ {e.updatedByRole : e \in DOMAIN timelines} = {"citizen", "admin", "staff"}
    /\ DeleteIssueResponse("d@x", 2) = 200
    /\ DeleteIssueResponse("c@x", 2) = 403

\* the _ids a request on a user may name
UserIdInputs == DOMAIN SeedUsers \cup {"u6", "u7", "u9"}

\* C18: the gates are role-exact: a request of a caller whose user document
\* has another role than the one the route asks for, or who has no user
\* document, is answered 403 whatever else it carries, for every route gated
\* on staff, on admin and on citizen (and is then, by the handlers' guards, no
\* change of the store).
C18_GatesAreRoleExact ==
    \A by \in Callers :
        /\ ~IsStaff(by) =>
              \A id \in IssueIds, t \in NewStatusInputs :
                  AdvanceStatusResponse(by, id, t) = 403
        /\ ~IsAdmin(by) =>
              /\ \A id \in IssueIds, staffId \in StaffIdInputs :
                    AssignStaffResponse(by, id, staffId) = 403
              /\ \A id \in IssueIds : RejectIssueResponse(by, id) = 403
              /\ \A id \in UserIdInputs, role \in RoleInputs :
                    ChangeRoleResponse(by, id, role) = 403
              /\ \A id \in UserIdInputs, isBlocked \in BOOLEAN :
                    BlockResponse(by, id, isBlocked) = 403
              /\ \A id \in UserIdInputs : DeleteUserResponse(by, id) = 403
        /\ ~IsCitizen(by) =>
              /\ CreateIssueResponse(by) = 403
              /\ \A id \in IssueIds :
                    /\ EditIssueResponse(by, id) = 403
                    /\ DeleteIssueResponse(by, id) = 403
              /\ \A email \in Callers : LimitResponse(by, email) = 403

\* staff member s, to whom issue 1 is assigned, has been made admin and can no
\* longer advance it; citizen c has been made staff and can no longer report;
\* n has no user document
C18_Witness ==
    /\ 1 \in DOMAIN issues /\ issues[1].assignedStaffEmail = "s@x"
    /\ users["u2"].role = "admin"
    /\ AdvanceStatusResponse("s@x", 1, "in_progress") = 403
    /\ users["u4"].role = "staff"
    /\ CreateIssueResponse("c@x") = 403
    /\ ~HasUser("n@x")
    /\ DeleteUserResponse("n@x", "u4") = 403

\* a step of a request that has passed the identity gate and the capability
\* gate of its route
GatedStep ==
    \/ \E authorization \in Callers \cup {NoCredential} :
          /\ verifyFirebaseToken(authorization)
          /\ \/ /\ verifyCitizen(authorization)
                /\ \/ \E title \in CreateTitles, photo \in BodyPhotos :
                         CreateIssue(authorization, title, "", photo)
                   \/ \E id \in IssueIds, title \in Titles, image \in Images :
                         EditIssue(authorization, id, title, image)
                   \/ \E id \in IssueIds : DeleteIssue(authorization, id)
             \/ /\ verifyStaff(authorization)
                /\ \E id \in IssueIds, t \in NewStatusInputs :
                      AdvanceStatus(authorization, id, t)
             \/ /\ verifyAdmin(authorization)
                /\ \/ \E id \in IssueIds, staffId \in StaffIdInputs :
                         AssignStaff(authorization, id, staffId)
                   \/ \E id \in IssueIds : RejectIssue(authorization, id)
                   \/ \E id \in UserIdInputs, role \in RoleInputs :
                         ChangeRole(authorization, id, role)
                   \/ \E id \in UserIdInputs, isBlocked \in BOOLEAN :
                         Block(authorization, id, isBlocked)
                   \/ \E id \in UserIdInputs : DeleteUserStart(authorization, id)
    \/ DeleteUserDetach \/ DeleteUserTimelines \/ DeleteUserIssues \/ DeleteUserRecord

\* C19: every step that changes the users, issues, payments or timelines
\* collection is a step of a request that has passed the identity gate and
\* then a capability gate.
C19_MutationsAreGated ==
    [][data' # data => GatedStep]_vars

\* C20: every stored role is citizen, staff or admin, and a step that stores a
\* new user document with another role than citizen or with the blocked flag
\* set, or that changes the role or the blocked flag of a stored one, is a
\* role or block request of a caller who passes the admin gate.
C20_RoleAndBlockByAdminOnly ==
    /\ [](\A u \in DOMAIN users : users[u].role \in {"citizen", "staff", "admin"})
    /\ [][(\E u \in DOMAIN users' :
             IF u \in DOMAIN users
             THEN \/ users'[u].role # users[u].role
                  \/ users'[u].isBlocked # users[u].isBlocked
             ELSE users'[u].role # "citizen" \/ users'[u].isBlocked) =>
          \E by \in Callers :
             /\ verifyAdmin(by)
             /\ \/ \E id \in UserIdInputs, role \in RoleInputs : ChangeRole(by, id, role)
                \/ \E id \in UserIdInputs, isBlocked \in BOOLEAN :
                      Block(by, id, isBlocked)]_vars

\* C21: a request to create an issue, or to edit one, by a caller whose user
\* document has the blocked flag set is answered 403.
C21_BlockedCannotPost ==
    \A by \in Callers :
        (HasUser(by) /\ FindUserByEmail(by).isBlocked) =>
            /\ CreateIssueResponse(by) = 403
            /\ \A id \in DOMAIN issues : EditIssueResponse(by, id) = 403

\* C23: every boosted issue has priority high: an issue is stored with the
\* flag unset and priority normal, no step but a settlement changes the flag
\* or the priority of a stored issue, and a settlement that changes one leaves
\* the flag set and the priority high.
C23_BoostedIsHighPriority ==
    /\ [](\A id \in DOMAIN issues :
            issues[id].isBoosted => issues[id].priority = "high")
    /\ [][\A id \in DOMAIN issues' :
            IF id \in DOMAIN issues
            THEN (\/ issues'[id].isBoosted # issues[id].isBoosted
                  \/ issues'[id].priority # issues[id].priority) =>
                    /\ \E sid \in SessionIds, now \in Times : PaymentSuccess(sid, now)
                    /\ issues'[id].isBoosted
                    /\ issues'[id].priority = "high"
            ELSE ~issues'[id].isBoosted /\ issues'[id].priority = "normal"]_vars

\* an issue has been edited, assigned, boosted and advanced
C23_Witness ==
    \E id \in DOMAIN issues :
        /\ issues[id].isBoosted /\ issues[id].priority = "high"
        /\ issues[id].title = "t2"
        /\ issues[id].assignedStaffId = "u2"
        /\ issues[id].status = "in_progress"

\* C24: a request that passes its gate and names the id of no issue, or of no
\* user, is answered 404: status advance, citizen edit, citizen deletion,
\* rejection, staff assignment, admin user deletion.
C24_MissingIdNotFound ==
    /\ \A by \in Callers, id \in IssueIds \ DOMAIN issues :
          /\ IsStaff(by) =>
                \A t \in RequestedStatuses : AdvanceStatusResponse(by, id, t) = 404
          /\ IsCitizen(by) =>
                /\ EditIssueResponse(by, id) = 404
                /\ DeleteIssueResponse(by, id) = 404
          /\ IsAdmin(by) =>
                /\ RejectIssueResponse(by, id) = 404
                /\ \A staffId \in StaffIdInputs : AssignStaffResponse(by, id, staffId) = 404
    /\ \A by \in Callers, id \in UserIdInputs \ DOMAIN users :
          IsAdmin(by) => DeleteUserResponse(by, id) = 404

\* C29: every issue with a non-empty assignedStaffEmail is assigned to a
\* stored user whose role is staff.
C29_AssigneeIsStaff ==
    \A id \in DOMAIN issues :
        Truthy(issues[id].assignedStaffEmail) =>
            IsStaff(issues[id].assignedStaffEmail)

\* C25: an admin's request to delete the user document of the admin's own
\* email is answered 400 and is no step: while a user is an admin, and no
\* deletion that another admin asked for is under way, the user's document,
\* identity account, issues and timeline entries are left as they are by
\* every deletion step.
C25_NoSelfDeletion ==
    /\ [](\A by \in Callers, id \in DOMAIN users :
            (deleting.pc = "idle" /\ IsAdmin(by) /\ users[id].email = by) =>
                DeleteUserResponse(by, id) = 400)
    /\ [][\A by \in Callers, id \in DOMAIN users :
            (IsAdmin(by) /\ users[id].email = by) =>
                /\ ~DeleteUserStart(by, id)
                /\ deleting'.id # id
                /\ (\/ DeleteUserDetach \/ DeleteUserTimelines
                    \/ DeleteUserIssues \/ DeleteUserRecord) =>
                      /\ id \in DOMAIN users' /\ by \in accounts'
                      /\ AuthoredBy(timelines, by) \subseteq DOMAIN timelines'
                      /\ ReportedBy(by) \subseteq DOMAIN issues']_vars

\* the admin, who has assigned an issue and so authored a timeline entry, is
\* stored with an identity account, and other users have been deleted
C25_Witness ==
    /\ "u1" \in DOMAIN users /\ "a@x" \in accounts
    /\ AuthoredBy(timelines, "a@x") # {}
    /\ DeleteUserResponse("a@x", "u1") = 400
    /\ "u2" \notin DOMAIN users
    /\ deleting = NoDeletion

\* C22 (refuted by the code): email is a unique key of the user documents, also
\* when the findOne and insertOne of two registrations interleave: at most one
\* user document carries a given email.
C22_OneUserPerEmail ==
    \A u, v \in DOMAIN users :
        (Truthy(users[u].email) /\ users[u].email = users[v].email) => u = v

\* C26: a status advance from s to t that succeeds first updates the issue,
\* changing its status to t and no other field, and then appends exactly one
\* timeline entry for the issue, with status t and role staff; an advance that
\* fails (missing status, 404, 403, invalid transition) ends at its tests and
\* changes neither the issues nor the timeline.
C26_AdvanceLogsOnce ==
    /\ [](\A k \in RunIds :
            LET r == running[k]
            IN  (r.op = "status" /\ (r.pc \in {"write", "log"} \/ r.code = 200))
                    => r.arg \in allowedTransitions(r.status))
    /\ [][\A k \in RunIds :
            LET r == running[k]
                q == running'[k]
            IN  /\ (q.op = "status" /\ q # r /\ r.pc \in {"idle", "done"})
                    => /\ data' = data
                       /\ q.pc \in {"write", "done"}
                       /\ q.pc = "done" => q.code \in {400, 403, 404}
                /\ (r.op = "status" /\ r.pc = "write" /\ q # r)
                    => /\ q.pc = "log"
                       /\ timelines' = timelines
                       /\ DOMAIN issues' = DOMAIN issues
                       /\ \A id \in DOMAIN issues :
                              issues'[id] = IF id = r.id
                                            THEN [issues[id] EXCEPT !.status = r.arg]
                                            ELSE issues[id]
                /\ (r.op = "status" /\ r.pc = "log" /\ q # r)
                    => /\ q.pc = "done" /\ q.code = 200
                       /\ issues' = issues
                       /\ timelines' = timelines (+) SetToBag({
                              TimelineEntry(r.id, r.arg, "Status changed by staff",
                                            "staff", r.by)})]_vars

\* one request has advanced issue 1 from pending to in_progress and logged it
\* once, another has asked for pending -> working and was refused
C26_Witness ==
    \E k, j \in RunIds :
        /\ running[k].op = "status" /\ running[k].pc = "done"
        /\ running[k].code = 200 /\ running[k].id = 1
        /\ running[k].status = "pending" /\ running[k].arg = "in_progress"
        /\ running[j].op = "status" /\ running[j].pc = "done"
        /\ running[j].code = 400 /\ running[j].id = 1
        /\ running[j].status = "pending" /\ running[j].arg = "working"
        /\ 1 \in DOMAIN issues /\ issues[1].status = "in_progress"
        /\ CopiesIn(TimelineEntry(1, "in_progress", "Status changed by staff",
                                  "staff", running[k].by), timelines) = 1

\* C27 (refuted by the code): when the findOne, updateOne and logTimeline of
\* concurrent status and rejection requests interleave, the stored status of an
\* issue still stays or moves along one allowed edge at every write: rejected
\* is not set on an issue that has left pending, and a request that read a
\* stale status moves nothing backward and does not overwrite rejected.
C27_RacingStatusFollowsEdges ==
    [][\A id \in RaceIssues :
          (id \in DOMAIN issues /\ id \in DOMAIN issues')
              => \/ issues'[id].status = issues[id].status
                 \/ <<issues[id].status, issues'[id].status>> \in LifecycleEdges]_vars

\* C28 (refuted by the code): of concurrent assignment requests for one
\* unassigned issue, one writes the assignee: once an issue has an assignee, no
\* write step changes its assignment fields, and the timeline never holds two
\* "assigned" entries for the issue.
C28_AssignedOnce ==
    /\ [](\A id \in RaceIssues :
            LET assigned == {e \in BagToSet(timelines) :
                                /\ e.issueId = id
                                /\ e.message = "Issue assigned to staff"}
            IN  /\ Cardinality(assigned) <= 1
                /\ \A e \in assigned : CopiesIn(e, timelines) = 1)
    /\ [][\A id \in RaceIssues :
            (id \in DOMAIN issues /\ id \in DOMAIN issues' /\ HasAssignee(issues[id]))
                => AssignmentFields(issues'[id]) = AssignmentFields(issues[id])]_vars

\* C30 (refuted by the code): whenever a payment document is stored for a
\* transaction, no settlement call for it is under way and a call for it has
\* been answered with the payment, its effect is in place, also after an
\* earlier call that ended between the upsert and the effect: the
\* user with the payer's email is premium for a subscription, and the issue of
\* a boost, when it is stored, is boosted with priority high.
C30_SettledPaymentHasEffect ==
    \A sid \in PaidSessions :
        LET session == Session(sid)
            tx == session.payment_intent
        IN  (/\ PaymentsOf(payments, tx) # {}
             /\ RunningFor(tx) = {}
             /\ \E k \in CallsFor(tx) : calls[k].paymentInfo # NoPayment)
                => /\ AppliesPremium(session)
                        => \A u \in DOMAIN users :
                              users[u].email = session.userEmail => users[u].isPremium
                   /\ (AppliesBoost(session) /\ session.issueId \in DOMAIN issues)
                        => /\ issues[session.issueId].isBoosted
                           /\ issues[session.issueId].priority = "high"

====
